---- MODULE Spec2Model ----
(***************************************************************************)
(* Model of the trading back-test core of leomok82/trade:                  *)
(*   - BuyLow.on_bar, the mean-reversion strategy, in its two versions:    *)
(*     src/src/strategy.py (state kept in per-symbol dictionaries of the   *)
(*     strategy object) and src/legacy/src/strategy.py (state passed in as *)
(*     a LiveState, the signature BacktestEngine._worker calls);           *)
(*   - BacktestEngine (src/src/engine.py): run(), one _worker thread per   *)
(*     symbol, the shared capital, trade list and equity list, the locks;  *)
(*   - RegimeDetector (src/src/regimes.py) and TrendDetector               *)
(*     (src/src/trends.py);                                                *)
(*   - MonteCarloSimulator (src/src/monte_carlo.py).                       *)
(*                                                                         *)
(* Number representation.  Prices are positive integers.  With n the       *)
(* timeframe window, a mean m is kept as n*m (the window sum) and a        *)
(* standard deviation s as (n*s)^2 = n*sum(x^2) - sum(x)^2, so that every  *)
(* comparison of a z-score with a threshold is exact integer arithmetic.   *)
(* Thresholds are kept in thousandths.                                     *)
(***************************************************************************)
EXTENDS Integers, Sequences, FiniteSets, TLC

(***************************************************************************)
(* Bounds of the model                                                     *)
(***************************************************************************)
\* timeframe_minutes, the look-back window n of the strategy
TimeframeMinutes == 2
\* number of bars fed to the strategy under SpecStrategy
MaxBars == 6
\* cooldown_period of the strategy (30 in the source), scaled down
CooldownPeriod == 3
\* regime_window of the regime detector (20 in the source), scaled down
RegimeWindow == 3
\* lookback of the trend detector (60 / 300 in the source), scaled down
TrendLookback == 4
\* stop_loss of the strategy, in thousandths
StopLoss == 1000

\* factor = (entry, exit) of the strategy, in thousandths
Factor == <<1000, 1000>>

\* close prices fed to the strategy under SpecStrategy
Prices == {1, 2, 3}

Symbols == {"A", "B"}

\* the symbols whose bars are fed to the strategy under SpecStrategy
StratSymbols == {"A"}

Regimes == {"LOW", "NORMAL", "HIGH", "EXTREME"}
Trends == {"DOWN", "FLAT", "UP"}

\* default of BuyLow.entry_price: defaultdict(lambda: 1e8)
EntryPriceDefault == 100000000

VARIABLES
    \* ---- the BuyLow object of src/src/strategy.py
    history, pos, entry_price, entry_std, cooldown, current_regime, current_trend,
    \* ---- which BuyLow is under test, and its constructor flags
    variant, cfg,
    \* ---- the last on_bar call, the log of the non-HOLD signals returned and
    \* ---- the numbers of the bars they were returned on
    last, sigs, sig_bars,
    \* ---- BacktestEngine
    data, capital, trades, equity_curve, active_threads,
    capital_lock, trades_lock, equity_lock, threads_lock,
    pc, idx, state, signal, loc, runpc, equity_df,
    \* ---- the result of the last BacktestEngine.get_stats call
    stats,
    \* ---- the RegimeDetector and TrendDetector objects, the last call on one
    regime_detector, trend_detector, det_call,
    \* ---- the MonteCarloSimulator object, the last call on it, and whether a
    \* ---- run() has completed on it
    mc, mc_call, mc_ran

stratVars == <<history, pos, entry_price, entry_std, cooldown, current_regime,
               current_trend, variant, cfg, last, sigs, sig_bars>>
engineVars == <<data, capital, trades, equity_curve, active_threads,
                capital_lock, trades_lock, equity_lock, threads_lock,
                pc, idx, signal, loc, runpc, equity_df, stats>>
detVars == <<regime_detector, trend_detector, det_call>>
mcVars == <<mc, mc_call, mc_ran>>
vars == <<stratVars, engineVars, state, detVars, mcVars>>

(***************************************************************************)
(* Window statistics (numpy mean / std over history[-n-1:-1])              *)
(***************************************************************************)
RECURSIVE SeqSum(_)
SeqSum(s) == IF s = <<>> THEN 0 ELSE Head(s) + SeqSum(Tail(s))

RECURSIVE SeqSumSq(_)
SeqSumSq(s) == IF s = <<>> THEN 0 ELSE Head(s) * Head(s) + SeqSumSq(Tail(s))

\* history[-timeframe-1:-1] : the n prices before the current one
LookbackPrices(h) == SubSeq(h, Len(h) - TimeframeMinutes, Len(h) - 1)

\* n * np.mean(lookback_prices)
WinMean(h) == SeqSum(LookbackPrices(h))

\* (n * np.std(lookback_prices))^2
WinStd(h) ==
    TimeframeMinutes * SeqSumSq(LookbackPrices(h))
        - SeqSum(LookbackPrices(h)) * SeqSum(LookbackPrices(h))

\* num / sqrt(dev) < -(thr/1000)
BelowNeg(num, dev, thr) == num < 0 /\ num * num * 1000000 > thr * thr * dev

\* num / sqrt(dev) > thr/1000
AboveThr(num, dev, thr) == num > 0 /\ num * num * 1000000 > thr * thr * dev

(***************************************************************************)
(* Thresholds scaled by the volatility regime                              *)
(***************************************************************************)
EntryThreshold(regime) ==
    IF regime = "LOW" THEN (Factor[1] * 7) \div 10
    ELSE IF regime = "HIGH" THEN (Factor[1] * 13) \div 10
    ELSE Factor[1]

ExitThreshold(regime) ==
    IF regime = "LOW" THEN (Factor[2] * 8) \div 10
    ELSE IF regime = "HIGH" THEN (Factor[2] * 12) \div 10
    ELSE IF regime = "EXTREME" THEN (Factor[2] * 15) \div 10
    ELSE Factor[2]

StopLossThreshold(regime) ==
    IF regime = "LOW" THEN (StopLoss * 8) \div 10
    ELSE IF regime = "HIGH" THEN (StopLoss * 12) \div 10
    ELSE IF regime = "EXTREME" THEN (StopLoss * 15) \div 10
    ELSE StopLoss

(***************************************************************************)
(* The detectors as the strategy calls them.  The numerical classification *)
(* of a long enough history is an input of the call (rin, tin).            *)
(***************************************************************************)
RegimeCalculate(h, rin) ==
    IF Len(h) < RegimeWindow + 1 THEN "NORMAL"
    ELSE IF Len(h) < TimeframeMinutes THEN "NORMAL"
    ELSE rin

TrendCalculate(h, tin) ==
    IF Len(h) < TrendLookback THEN "FLAT" ELSE tin

(***************************************************************************)
(* BuyLow.on_bar of src/src/strategy.py                                    *)
(* cfg = [use_regime, regime_adjust, use_trend], the constructor flags.    *)
(***************************************************************************)
\* a BuyLow that trades through the EXTREME regime
ExtremeSkipNever(regime, p) == FALSE

\* line 155: in the EXTREME regime a flat symbol takes no new entry
ExtremeSkip(regime, p) == regime = "EXTREME" /\ p = 0

\* a BuyLow with a stop loss and no take profit
ExitSignalStopOnly(p, close, eprice, estd, regime) ==
    /\ p = 1
    /\ BelowNeg((close - eprice) * TimeframeMinutes, estd, StopLossThreshold(regime))

\* lines 164-176: stop loss or take profit of an open position
ExitSignal(p, close, eprice, estd, regime) ==
    /\ p = 1
    /\ \/ BelowNeg((close - eprice) * TimeframeMinutes, estd, StopLossThreshold(regime))
       \/ AboveThr((close - eprice) * TimeframeMinutes, estd, ExitThreshold(regime))

\* line 186: entry condition
EntrySignal(p, zn, dev, regime, cd) ==
    p = 0 /\ BelowNeg(zn, dev, EntryThreshold(regime)) /\ cd <= 0

\* a cooldown that stops at 0
TickClamped(cd) == IF cd > 0 THEN cd - 1 ELSE cd

\* line 161: the cooldown is decremented, below 0 too
Tick(cd) == cd - 1

\* a BuyLow without the trend filter
TrendFilterOff(use_trend, trend) == FALSE

\* lines 179-182: on a DOWN trend no entry is taken
TrendFilter(use_trend, trend) == use_trend /\ trend = "DOWN"

\* a BuyLow that returns SELL and forgets to clear the position flag
ExitKeepsPosition(rec) == [rec EXCEPT !.signal = -1]

\* lines 168-169, 175-176: the position is closed, SELL is returned
ExitPosition(rec) == [rec EXCEPT !.pos = 0, !.signal = -1]

\* a cooldown armed two bars short
CooldownShort == CooldownPeriod - 2

\* line 190: the value the cooldown is set to at an entry, cooldown_period
CooldownAtEntry == CooldownPeriod

\* a BuyLow that opens a position and leaves the cooldown as it is
EnterKeepsCooldown(rec, close, dev) ==
    [rec EXCEPT !.pos = 1, !.entry_price = close, !.entry_std = dev, !.signal = 1]

\* lines 187-191: the position is opened, BUY is returned
EnterPosition(rec, close, dev) ==
    [rec EXCEPT !.pos = 1, !.entry_price = close, !.entry_std = dev,
                !.cooldown = CooldownAtEntry, !.signal = 1]

\* a BuyLow whose cooldown runs during the warm-up
WarmUpTicks(rec) == [rec EXCEPT !.cooldown = rec.cooldown - 1]

\* lines 107-108: not enough history, HOLD is returned
WarmUp(rec) == rec

\* The result of one call on_bar(symbol, bar) with bar['close'] = close: the new
\* values of the symbol's entries in the dictionaries, and the signal returned.
BuyLowOnBar(s, close, rin, tin) ==
    LET h == Append(history[s], close)
        old == [history |-> h, pos |-> pos[s], entry_price |-> entry_price[s],
                entry_std |-> entry_std[s], cooldown |-> cooldown[s],
                current_regime |-> current_regime[s],
                current_trend |-> current_trend[s],
                signal |-> 0, regime |-> "none", trend |-> "none",
                warm |-> FALSE, flat_std |-> FALSE]
    IN  IF Len(h) <= TimeframeMinutes THEN WarmUp(old)
        ELSE
        LET reg == IF cfg.use_regime THEN RegimeCalculate(h, rin) ELSE current_regime[s]
            trd == IF cfg.use_trend THEN TrendCalculate(h, tin) ELSE current_trend[s]
            det == [old EXCEPT !.current_regime = reg, !.current_trend = trd,
                               !.regime = IF cfg.use_regime THEN reg ELSE "none",
                               !.trend = IF cfg.use_trend THEN trd ELSE "none",
                               !.warm = TRUE]
            dev == WinStd(h)
            zn == TimeframeMinutes * close - WinMean(h)
            \* the regime that scales the thresholds (lines 140-158)
            adj == IF cfg.regime_adjust /\ cfg.use_regime THEN reg ELSE "NORMAL"
        IN  IF dev = 0 THEN [det EXCEPT !.flat_std = TRUE]
            ELSE IF ExtremeSkip(adj, pos[s]) THEN det
            ELSE
            LET cd == Tick(cooldown[s])
                ticked == [det EXCEPT !.cooldown = cd]
            IN  IF ExitSignal(pos[s], close, entry_price[s], entry_std[s], adj)
                THEN ExitPosition(ticked)
                ELSE IF TrendFilter(cfg.use_trend, trd) THEN ticked
                ELSE IF EntrySignal(pos[s], zn, dev, adj, cd)
                THEN EnterPosition(ticked, close, dev)
                ELSE ticked

(***************************************************************************)
(* BuyLow.on_bar(bar, st) of src/legacy/src/strategy.py, on a LiveState    *)
(***************************************************************************)
LiveState == [history |-> <<>>, entry_mean |-> 0, entry_std |-> 0, pos |-> 0,
              entry_price |-> 0, cooldown |-> 0, shares |-> 0]

\* lines 136-142: stop loss or take profit, measured from the frozen mean
LegacyExitSignal(zn, dev, regime) ==
    \/ BelowNeg(zn, dev, StopLossThreshold(regime))
    \/ AboveThr(zn, dev, ExitThreshold(regime))

\* line 151: entry condition
LegacyEntrySignal(p, zn, dev, regime, cd) ==
    p = 0 /\ BelowNeg(zn, dev, EntryThreshold(regime)) /\ cd <= 0

\* an exit that clears the entry fields of the position it closes
LegacyExitClearsEntry(rec) ==
    [rec EXCEPT !.st.pos = 0, !.st.entry_price = 0, !.st.entry_std = 0,
                !.signal = -1]

\* lines 137-138, 141-142: the position is closed, SELL is returned
LegacyExitPosition(rec) == [rec EXCEPT !.st.pos = 0, !.signal = -1]

\* lines 152-156: the position is opened, BUY is returned
LegacyEnterPosition(rec, close, h) ==
    [rec EXCEPT !.st.pos = 1, !.st.entry_price = close,
                !.st.entry_std = WinStd(h), !.st.entry_mean = WinMean(h),
                !.signal = 1]

\* line 92: n * mean_price, the frozen entry mean when there is one
LegacyMeanPrice(st, h) == IF st.entry_mean > 0 THEN st.entry_mean ELSE WinMean(h)

\* line 94: (n * std_dev)^2, the frozen entry std when there is one
LegacyStdDev(st, h) == IF st.entry_std > 0 THEN st.entry_std ELSE WinStd(h)

\* The result of one call on_bar(bar, st): the LiveState after the call, the
\* signal returned.  flags = [use_regime, use_trend].
LegacyOnBar(st, close, rin, tin, flags) ==
    LET h == Append(st.history, close)
        st1 == [st EXCEPT !.history = h]
        hold == [st |-> st1, signal |-> 0, regime |-> "none", trend |-> "none",
                 warm |-> FALSE, flat_std |-> FALSE]
    IN  IF Len(h) <= TimeframeMinutes THEN hold
        ELSE
        LET reg == IF flags.use_regime THEN RegimeCalculate(h, rin) ELSE "none"
            trd == IF flags.use_trend THEN TrendCalculate(h, tin) ELSE "none"
            det == [hold EXCEPT !.regime = reg, !.trend = trd, !.warm = TRUE]
            mean_price == LegacyMeanPrice(st, h)
            std_dev == LegacyStdDev(st, h)
            zn == TimeframeMinutes * close - mean_price
            adj == IF flags.use_regime THEN reg ELSE "NORMAL"
        IN  IF std_dev = 0 THEN [det EXCEPT !.flat_std = TRUE]
            ELSE IF flags.use_regime /\ ExtremeSkip(adj, st.pos) THEN det
            ELSE
            LET cd == IF st.cooldown > 0 THEN st.cooldown - 1 ELSE st.cooldown
                \* line 134: while the position is open the cooldown is re-armed
                cd2 == IF st.pos = 1 THEN CooldownPeriod ELSE cd
                ticked == [det EXCEPT !.st.cooldown = cd2]
            IN  IF st.pos = 1 /\ LegacyExitSignal(zn, std_dev, adj)
                THEN LegacyExitPosition(ticked)
                ELSE IF TrendFilter(flags.use_trend, trd) THEN ticked
                ELSE IF LegacyEntrySignal(st.pos, zn, std_dev, adj, cd2)
                THEN LegacyEnterPosition(ticked, close, h)
                ELSE ticked

(***************************************************************************)
(* SpecStrategy: bars are fed to one BuyLow, of either version             *)
(***************************************************************************)
NoCall == [sym |-> "none", close |-> 0, signal |-> 0, pos0 |-> 0, cd0 |-> 0,
           regime |-> "none", trend |-> "none", warm |-> FALSE, flat_std |-> FALSE]

\* the non-HOLD signals returned so far, oldest first
LogSignal(log, sig) == IF sig = 0 THEN log ELSE Append(log, sig)

\* the numbers of the bars of these signals (bar n is the n-th call)
LogBar(log, sig, n) == IF sig = 0 THEN log ELSE Append(log, n)

\* BuyLow.__init__ of src/src/strategy.py: the empty dictionaries
StrategyNew ==
    /\ history = [s \in Symbols |-> <<>>]
    /\ pos = [s \in Symbols |-> 0]
    /\ entry_price = [s \in Symbols |-> EntryPriceDefault]
    /\ entry_std = [s \in Symbols |-> 0]
    /\ cooldown = [s \in Symbols |-> 0]
    /\ current_regime = [s \in Symbols |-> "NORMAL"]
    /\ current_trend = [s \in Symbols |-> "FLAT"]
    /\ last = NoCall
    /\ sigs = [s \in Symbols |-> <<>>]
    /\ sig_bars = [s \in Symbols |-> <<>>]

\* on_bar(symbol, bar) of src/src/strategy.py
OnBar(s, close, rin, tin) ==
    /\ variant = "src"
    /\ Len(history[s]) < MaxBars
    /\ \E r \in {BuyLowOnBar(s, close, rin, tin)} :
           /\ history' = [history EXCEPT ![s] = r.history]
           /\ pos' = [pos EXCEPT ![s] = r.pos]
           /\ entry_price' = [entry_price EXCEPT ![s] = r.entry_price]
           /\ entry_std' = [entry_std EXCEPT ![s] = r.entry_std]
           /\ cooldown' = [cooldown EXCEPT ![s] = r.cooldown]
           /\ current_regime' = [current_regime EXCEPT ![s] = r.current_regime]
           /\ current_trend' = [current_trend EXCEPT ![s] = r.current_trend]
           /\ last' = [sym |-> s, close |-> close, signal |-> r.signal,
                       pos0 |-> pos[s], cd0 |-> cooldown[s],
                       regime |-> r.regime, trend |-> r.trend,
                       warm |-> r.warm, flat_std |-> r.flat_std]
           /\ sigs' = [sigs EXCEPT ![s] = LogSignal(sigs[s], r.signal)]
           /\ sig_bars' = [sig_bars EXCEPT
                              ![s] = LogBar(sig_bars[s], r.signal, Len(r.history))]
    /\ UNCHANGED <<variant, cfg, engineVars, state, detVars, mcVars>>

\* on_bar(bar, st) of src/legacy/src/strategy.py, st the symbol's LiveState
OnBarLegacy(s, close, rin, tin) ==
    /\ variant = "legacy"
    /\ Len(state[s].history) < MaxBars
    /\ \E r \in {LegacyOnBar(state[s], close, rin, tin,
                             [use_regime |-> cfg.use_regime, use_trend |-> cfg.use_trend])} :
           /\ state' = [state EXCEPT ![s] = r.st]
           /\ last' = [sym |-> s, close |-> close, signal |-> r.signal,
                       pos0 |-> state[s].pos, cd0 |-> state[s].cooldown,
                       regime |-> r.regime, trend |-> r.trend,
                       warm |-> r.warm, flat_std |-> r.flat_std]
           /\ sigs' = [sigs EXCEPT ![s] = LogSignal(sigs[s], r.signal)]
           /\ sig_bars' = [sig_bars EXCEPT
                              ![s] = LogBar(sig_bars[s], r.signal, Len(r.st.history))]
    /\ UNCHANGED <<history, pos, entry_price, entry_std, cooldown, current_regime,
                   current_trend, variant, cfg, engineVars, detVars, mcVars>>

(***************************************************************************)
(* RegimeDetector (src/src/regimes.py) and TrendDetector                   *)
(* (src/src/trends.py) as objects of their own.                            *)
(*                                                                         *)
(* The volatility of a window of prices is not computed: the current       *)
(* volatility and the rolling volatilities of the look-back window are     *)
(* inputs of the call (v, hv), small integers.  A percentile is kept times *)
(* 100, np.percentile's linear interpolation being exact on integers then. *)
(* In the same way the directions of the three trend signals and the       *)
(* strength are inputs of TrendDetector.calculate.                         *)
(***************************************************************************)
\* the sequences of length n over S in non-decreasing order
SortedSeqs(n, S) ==
    {q \in [1..n -> S] : \A i \in 1..(n - 1) : q[i] <= q[i + 1]}

\* the number of positions of sequence q that hold x
Count(q, x) == Cardinality({i \in 1..Len(q) : q[i] = x})

\* np.sort of a sequence of integers
NpSort(q) ==
    CHOOSE t \in SortedSeqs(Len(q), {q[i] : i \in 1..Len(q)}) :
        \A i \in 1..Len(q) : Count(t, q[i]) = Count(q, q[i])

\* 100 * np.percentile(a, pct), a a non-empty sequence of integers: linear
\* interpolation between the order statistics around pct/100 * (len(a) - 1)
Percentile100(a, pct) ==
    LET sorted == NpSort(a)
        k == pct * (Len(a) - 1)
        lo == (k \div 100) + 1
        frac == k % 100
    IN  IF frac = 0 THEN 100 * sorted[lo]
        ELSE 100 * sorted[lo] + frac * (sorted[lo + 1] - sorted[lo])

\* lookback_window of a RegimeDetector of its own (390 in the source)
LookbackWindow == 5
\* number of bars fed to a detector of its own, all symbols together
DetBars == 5

\* the volatilities a window can have
Vols == {1, 2, 4, 5}

\* the closes fed to a detector of its own
DetPrices == {1, 2}

\* the number of rolling volatilities of the look-back window (lines 70-80):
\* lookback_window - 1 returns, one volatility per regime_window of them
HistVols == LookbackWindow - RegimeWindow

\* a classifier that puts a volatility equal to a threshold in the lower bucket
ClassifyLowerAtThreshold(v100, p25, p75, p90) ==
    IF v100 <= p25 THEN "LOW"
    ELSE IF v100 <= p75 THEN "NORMAL"
    ELSE IF v100 <= p90 THEN "HIGH"
    ELSE "EXTREME"

\* lines 92-99: the regime of volatility v100 under the thresholds
Classify(v100, p25, p75, p90) ==
    IF v100 < p25 THEN "LOW"
    ELSE IF v100 < p75 THEN "NORMAL"
    ELSE IF v100 < p90 THEN "HIGH"
    ELSE "EXTREME"

\* RegimeDetector.__init__ and TrendDetector.__init__
DetectorsNew ==
    /\ regime_detector = [history |-> [s \in Symbols |-> <<>>],
                          current_regime |-> [s \in Symbols |-> "NORMAL"],
                          current_volatility |-> [s \in Symbols |-> 0],
                          volatility_percentile |-> [s \in Symbols |-> 0]]
    /\ trend_detector = [current_trend |-> [s \in Symbols |-> "FLAT"],
                         trend_strength |-> [s \in Symbols |-> 0],
                         last_lr_slope |-> 0]
    /\ det_call = [op |-> "none", sym |-> "none", len |-> 0, result |-> "none",
                   v |-> 0, p25 |-> 0, p75 |-> 0, p90 |-> 0,
                   lr |-> "none", mom |-> "none", ac |-> "none"]

\* The result of RegimeDetector.on_bar(symbol, bar), bar['close'] = close: the
\* detector after the call and the regime returned.  v is the volatility of
\* the last regime_window returns, hv the rolling volatilities.
RegimeDetectorOnBar(d, s, close, v, hv) ==
    LET h == Append(d.history[s], close)
        d1 == [d EXCEPT !.history[s] = h]
        d2 == [d1 EXCEPT !.current_volatility[s] = v]
        p25 == Percentile100(hv, 25)
        p75 == Percentile100(hv, 75)
        p90 == Percentile100(hv, 90)
        regime == Classify(100 * v, p25, p75, p90)
        none == [regime |-> "NORMAL", p25 |-> 0, p75 |-> 0, p90 |-> 0]
    IN  IF Len(h) < RegimeWindow + 1 THEN none @@ [det |-> d1]
        ELSE IF Len(h) < LookbackWindow THEN none @@ [det |-> d2]
        ELSE [det |-> [d2 EXCEPT
                        !.volatility_percentile[s] =
                            (Cardinality({i \in 1..Len(hv) : hv[i] < v}) * 100)
                                \div Len(hv),
                        !.current_regime[s] = regime],
              regime |-> regime, p25 |-> p25, p75 |-> p75, p90 |-> p90]

\* the number of bars the RegimeDetector has been fed, all symbols together
BarsFed == SeqSum([i \in 1..2 |-> Len(regime_detector.history[<<"A", "B">>[i]])])

\* on_bar(symbol, bar) of a RegimeDetector
RegimeOnBar(s, close, v, hv) ==
    /\ variant = "regime"
    /\ BarsFed < DetBars
    /\ \E r \in {RegimeDetectorOnBar(regime_detector, s, close, v, hv)} :
           /\ regime_detector' = r.det
           /\ det_call' = [det_call EXCEPT
                             !.op = "on_bar", !.sym = s,
                             !.len = Len(r.det.history[s]), !.result = r.regime,
                             !.v = v, !.p25 = r.p25, !.p75 = r.p75, !.p90 = r.p90,
                             !.lr = "none", !.mom = "none", !.ac = "none"]
    /\ UNCHANGED <<stratVars, engineVars, state, trend_detector, mcVars>>

\* lines 94-99
DirToScore(d) == IF d = "UP" THEN 1 ELSE IF d = "DOWN" THEN -1 ELSE 0

\* a combination in which a DOWN autocorrelation leaves the score as it is
ScoreUndamped(lr, mom, ac) ==
    LET sum == DirToScore(lr) + DirToScore(mom)
    IN  IF ac = "UP" THEN sum * 125 ELSE sum * 100

\* lines 66-75: the score, in hundredths
Score(lr, mom, ac) ==
    LET sum == DirToScore(lr) + DirToScore(mom)
    IN  IF ac = "UP" THEN sum * 125
        ELSE IF ac = "DOWN" THEN sum * 60
        ELSE sum * 100

\* lines 78-83: the final classification
Combine(lr, mom, ac) ==
    IF Score(lr, mom, ac) >= 100 THEN "UP"
    ELSE IF Score(lr, mom, ac) <= -100 THEN "DOWN"
    ELSE "FLAT"

\* The result of TrendDetector.calculate(symbol, price_history): the detector
\* after the call and the trend returned.  lr, mom, ac are the directions of
\* the three signals, strength the combined strength in hundredths.
TrendDetectorCalculate(d, s, n, lr, mom, ac, strength) ==
    IF n < TrendLookback
    THEN [det |-> [d EXCEPT !.current_trend[s] = "FLAT", !.trend_strength[s] = 0],
          trend |-> "FLAT"]
    ELSE [det |-> [d EXCEPT !.current_trend[s] = Combine(lr, mom, ac),
                            !.trend_strength[s] = strength,
                            !.last_lr_slope = DirToScore(lr)],
          trend |-> Combine(lr, mom, ac)]

\* calculate(symbol, price_history) of a TrendDetector, len(price_history) = n
TrendCalc(s, n, lr, mom, ac, strength) ==
    /\ variant = "trend"
    /\ \E r \in {TrendDetectorCalculate(trend_detector, s, n, lr, mom, ac, strength)} :
           /\ trend_detector' = r.det
           /\ det_call' = [det_call EXCEPT
                             !.op = "calculate", !.sym = s, !.len = n,
                             !.result = r.trend,
                             !.v = 0, !.p25 = 0, !.p75 = 0, !.p90 = 0,
                             !.lr = IF n < TrendLookback THEN "none" ELSE lr,
                             !.mom = IF n < TrendLookback THEN "none" ELSE mom,
                             !.ac = IF n < TrendLookback THEN "none" ELSE ac]
    /\ UNCHANGED <<stratVars, engineVars, state, regime_detector, mcVars>>

(***************************************************************************)
(* BacktestEngine                                                          *)
(***************************************************************************)
\* initial_capital (default of BacktestEngine.__init__)
InitialCapital == 10000

\* close prices of one symbol's bars, oldest first
EnginePaths == {<<2, 2, 2, 2>>, <<1, 2, 3, 3>>, <<3, 2, 1, 1>>, <<4, 3, 2, 5>>,
                <<4, 3, 2, 3>>, <<2, 3, 2, 1>>, <<>>}

\* the rows of one symbol: bar i of symbol B is one time step after bar i of A
Rows(s, path) ==
    [i \in 1..Len(path) |->
        [timestamp |-> i + (IF s = "A" THEN 0 ELSE 1), close |-> path[i]]]

\* no get_stats call yet
NoStats == [called |-> FALSE, at |-> "none", raised |-> "none", mapping |-> {}]

\* BacktestEngine.__init__
EngineNew ==
    /\ capital = InitialCapital
    /\ trades = <<>>
    /\ equity_curve = <<>>
    /\ active_threads = 0
    /\ capital_lock = "free"
    /\ trades_lock = "free"
    /\ equity_lock = "free"
    /\ threads_lock = "free"
    /\ pc = [s \in Symbols |-> "idle"]
    /\ idx = [s \in Symbols |-> 0]
    /\ signal = [s \in Symbols |-> 0]
    /\ loc = [s \in Symbols |-> [trade_amt |-> 0, shares |-> 0, proceeds |-> 0]]
    /\ runpc = "new"
    /\ equity_df = <<>>
    /\ stats = NoStats

\* line 118: the amount one BUY may spend
Allocation ==
    IF Cardinality(Symbols) > 1
    THEN InitialCapital \div (Cardinality(Symbols) \div 2)
    ELSE InitialCapital

\* a BUY that spends its allocation whatever the capital left
MinIsSecond(a, b) == b

Min(a, b) == IF a < b THEN a ELSE b

Max(S) == CHOOSE x \in S : \A y \in S : y <= x

\* run(), lines 57-87: the threads are created and started
RunStart ==
    /\ runpc = "new"
    /\ threads_lock = "free"
    /\ active_threads' = Cardinality({s \in Symbols : Len(data[s]) > 0})
    /\ pc' = [s \in Symbols |-> IF Len(data[s]) > 0 THEN "loop" ELSE "absent"]
    /\ state' = [s \in Symbols |-> LiveState]
    /\ runpc' = "running"
    /\ UNCHANGED <<detVars, mcVars, stats, stratVars, data, capital, trades, equity_curve, capital_lock,
                   trades_lock, equity_lock, threads_lock, idx, signal, loc, equity_df>>

\* the strategy of the engine: BuyLow.on_bar(row, state), the detectors off
EngineFlags == [use_regime |-> FALSE, use_trend |-> FALSE]

\* lines 107-112: the next row, and the strategy's signal for it
WorkerBar(s) ==
    /\ pc[s] = "loop"
    /\ idx[s] < Len(data[s])
    /\ \E r \in {LegacyOnBar(state[s], data[s][idx[s] + 1].close, "NORMAL", "FLAT",
                             EngineFlags)} :
           /\ idx' = [idx EXCEPT ![s] = idx[s] + 1]
           /\ state' = [state EXCEPT ![s] = r.st]
           /\ signal' = [signal EXCEPT ![s] = r.signal]
           /\ pc' = [pc EXCEPT ![s] = IF r.signal = 1 THEN "buy"
                                      ELSE IF r.signal = -1 THEN "sell"
                                      ELSE "equity"]
    /\ UNCHANGED <<detVars, mcVars, stats, stratVars, data, capital, trades, equity_curve, active_threads,
                   capital_lock, trades_lock, equity_lock, threads_lock, loc,
                   runpc, equity_df>>

Row(s) == data[s][idx[s]]

\* lines 121-125: with capital_lock, the BUY takes its amount from the capital
WorkerBuy(s) ==
    /\ pc[s] = "buy"
    /\ capital_lock = "free"
    /\ capital_lock' = s
    /\ LET trade_amt == Min(capital, Allocation)
       IN  /\ capital' = capital - trade_amt
           /\ loc' = [loc EXCEPT ![s].trade_amt = trade_amt,
                                 ![s].shares = trade_amt \div Row(s).close]
    /\ pc' = [pc EXCEPT ![s] = "buy_rec"]
    /\ UNCHANGED <<detVars, mcVars, stats, stratVars, data, trades, equity_curve, active_threads,
                   trades_lock, equity_lock, threads_lock, idx, state, signal,
                   runpc, equity_df>>

\* line 128 / line 149: with trades_lock
WorkerTradesLock(s) ==
    /\ pc[s] \in {"buy_rec", "sell_rec"}
    /\ trades_lock = "free"
    /\ trades_lock' = s
    /\ pc' = [pc EXCEPT ![s] = IF pc[s] = "buy_rec" THEN "buy_app" ELSE "sell_app"]
    /\ UNCHANGED <<detVars, mcVars, stats, stratVars, data, capital, trades, equity_curve, active_threads,
                   capital_lock, equity_lock, threads_lock, idx, state, signal, loc,
                   runpc, equity_df>>

BuyTrade(s) ==
    [type |-> "buy", price |-> Row(s).close, date |-> Row(s).timestamp,
     symbol |-> s, shares |-> loc[s].shares, amount |-> loc[s].trade_amt]

\* lines 129-136: the buy trade is recorded, both locks are released
WorkerBuyRecord(s) ==
    /\ pc[s] = "buy_app"
    /\ trades' = Append(trades, BuyTrade(s))
    /\ trades_lock' = "free"
    /\ capital_lock' = "free"
    /\ pc' = [pc EXCEPT ![s] = "equity"]
    /\ UNCHANGED <<detVars, mcVars, stats, stratVars, data, capital, equity_curve, active_threads,
                   equity_lock, threads_lock, idx, state, signal, loc,
                   runpc, equity_df>>

\* lines 141-145: the proceeds of the symbol's shares are added to the capital
WorkerSell(s) ==
    /\ pc[s] = "sell"
    /\ capital_lock = "free"
    /\ capital_lock' = s
    /\ LET proceeds == state[s].shares * Row(s).close
       IN  /\ capital' = capital + proceeds
           /\ loc' = [loc EXCEPT ![s].proceeds = proceeds]
    /\ pc' = [pc EXCEPT ![s] = "sell_rec"]
    /\ UNCHANGED <<detVars, mcVars, stats, stratVars, data, trades, equity_curve, active_threads,
                   trades_lock, equity_lock, threads_lock, idx, state, signal,
                   runpc, equity_df>>

SellTrade(s) ==
    [type |-> "sell", price |-> Row(s).close, date |-> Row(s).timestamp,
     symbol |-> s, shares |-> state[s].shares, amount |-> loc[s].proceeds]

\* lines 150-157: the sell trade is recorded, both locks are released
WorkerSellRecord(s) ==
    /\ pc[s] = "sell_app"
    /\ trades' = Append(trades, SellTrade(s))
    /\ trades_lock' = "free"
    /\ capital_lock' = "free"
    /\ pc' = [pc EXCEPT ![s] = "equity"]
    /\ UNCHANGED <<detVars, mcVars, stats, stratVars, data, capital, equity_curve, active_threads,
                   equity_lock, threads_lock, idx, state, signal, loc,
                   runpc, equity_df>>

\* line 161: with capital_lock
WorkerEquityLock(s) ==
    /\ pc[s] = "equity"
    /\ capital_lock = "free"
    /\ capital_lock' = s
    /\ pc' = [pc EXCEPT ![s] = "eq_lock"]
    /\ UNCHANGED <<detVars, mcVars, stats, stratVars, data, capital, trades, equity_curve, active_threads,
                   trades_lock, equity_lock, threads_lock, idx, state, signal, loc,
                   runpc, equity_df>>

\* the equity point of the bar (line 163)
EquityPoint(s) == [timestamp |-> Row(s).timestamp, equity |-> capital]

\* a worker that keeps capital_lock after it recorded its equity point
WorkerEquityKeepsLock(s) ==
    /\ pc[s] = "eq_lock"
    /\ equity_lock = "free"
    /\ equity_curve' = Append(equity_curve, EquityPoint(s) @@ [symbol |-> s])
    /\ pc' = [pc EXCEPT ![s] = "loop"]
    /\ UNCHANGED <<detVars, mcVars, stats, stratVars, data, capital, trades, active_threads,
                   capital_lock, trades_lock, equity_lock, threads_lock, idx, state,
                   signal, loc, runpc, equity_df>>

\* lines 162-163: with equity_lock, the point is appended, both locks released
WorkerEquityRecord(s) ==
    /\ pc[s] = "eq_lock"
    /\ equity_lock = "free"
    /\ equity_curve' = Append(equity_curve, EquityPoint(s) @@ [symbol |-> s])
    /\ capital_lock' = "free"
    /\ pc' = [pc EXCEPT ![s] = "loop"]
    /\ UNCHANGED <<detVars, mcVars, stats, stratVars, data, capital, trades, active_threads,
                   trades_lock, equity_lock, threads_lock, idx, state, signal, loc,
                   runpc, equity_df>>

\* lines 166-167: the rows are exhausted, the thread counts itself out
WorkerFinish(s) ==
    /\ pc[s] = "loop"
    /\ idx[s] = Len(data[s])
    /\ threads_lock = "free"
    /\ active_threads' = active_threads - 1
    /\ pc' = [pc EXCEPT ![s] = "done"]
    /\ UNCHANGED <<detVars, mcVars, stats, stratVars, data, capital, trades, equity_curve,
                   capital_lock, trades_lock, equity_lock, threads_lock, idx, state,
                   signal, loc, runpc, equity_df>>

\* the timestamps of a list of equity points
Timestamps(curve) == {curve[i].timestamp : i \in 1..Len(curve)}

\* the index of the last point of the list at timestamp t
LastAt(curve, t) ==
    CHOOSE i \in 1..Len(curve) :
        /\ curve[i].timestamp = t
        /\ \A j \in (i + 1)..Len(curve) : curve[j].timestamp # t

RECURSIVE SumAt(_, _)
\* the sum of the equity of the points of the list at timestamp t
SumAt(curve, t) ==
    IF curve = <<>> THEN 0
    ELSE (IF Head(curve).timestamp = t THEN Head(curve).equity ELSE 0)
            + SumAt(Tail(curve), t)

\* a consolidation that sums the points of a timestamp
GroupBySum(curve) == [t \in Timestamps(curve) |-> SumAt(curve, t)]

\* lines 93-97: DataFrame(equity_curve).set_index('timestamp').groupby(level=0).last()
GroupByLast(curve) ==
    [t \in Timestamps(curve) |-> curve[LastAt(curve, t)].equity]

\* lines 89-99: all threads joined, the equity curve is consolidated and returned
RunReturn ==
    /\ runpc = "running"
    /\ \A s \in Symbols : pc[s] \in {"done", "absent"}
    /\ equity_df' = GroupByLast(equity_curve)
    /\ runpc' = "returned"
    /\ UNCHANGED <<detVars, mcVars, stats, stratVars, data, capital, trades, equity_curve, active_threads,
                   capital_lock, trades_lock, equity_lock, threads_lock, pc, idx,
                   state, signal, loc>>

\* get_trades(): the trade list as a frame, in list order
GetTrades == trades

\* the last timestamp of the consolidated curve
LastTimestamp == Max(DOMAIN equity_df)

\* a get_stats without the test of line 178: the column 'equity' of an empty
\* frame does not exist
GetStatsUnguarded ==
    IF runpc = "new"
    THEN [raised |-> "AttributeError", mapping |-> {}]
    ELSE IF DOMAIN equity_df = {}
    THEN [raised |-> "KeyError", mapping |-> {}]
    ELSE [raised |-> "none",
          mapping |-> {<<"Final Equity", equity_df[Max(DOMAIN equity_df)]>>,
                       <<"Total Return",
                         equity_df[Max(DOMAIN equity_df)] - InitialCapital>>,
                       <<"Total Trades", Len(trades)>>}]

\* get_stats(), lines 176-236, as the set of its <<key, value>> pairs (the
\* ratios computed from the curve are left out).  The attribute equity_df is
\* assigned by run() only: before run() the call raises AttributeError.
GetStatsResult ==
    IF runpc = "new"
    THEN [raised |-> "AttributeError", mapping |-> {}]
    ELSE IF DOMAIN equity_df = {}
    THEN [raised |-> "none", mapping |-> {}]
    ELSE [raised |-> "none",
          mapping |-> {<<"Final Equity", equity_df[LastTimestamp]>>,
                       <<"Total Return", equity_df[LastTimestamp] - InitialCapital>>,
                       <<"Total Trades", Len(trades)>>}]

GetStats ==
    /\ runpc \in {"new", "returned"}
    /\ stats' = GetStatsResult @@ [called |-> TRUE, at |-> runpc]
    /\ UNCHANGED <<detVars, mcVars, stratVars, data, capital, trades, equity_curve,
                   active_threads, capital_lock, trades_lock, equity_lock,
                   threads_lock, pc, idx, state, signal, loc, runpc, equity_df>>

(***************************************************************************)
(* MonteCarloSimulator (src/src/monte_carlo.py)                            *)
(*                                                                         *)
(* A return is kept in halves (RetUnit): 1 is +50%, -1 is -50%.  Portfolio *)
(* values are integers, percentiles of them are kept times 100, a          *)
(* confidence is kept in percent.  NaN stands for the float nan: a missing *)
(* value of the return series, the std of a one-element sample, and        *)
(* everything computed from it.  A draw of np.random.normal(mean, std) is  *)
(* the mean when std is 0, nan when std is nan, and any of Draws else.     *)
(***************************************************************************)
NaN == -99

RetUnit == 2

\* largest length of the return series handed to the constructor
MaxReturns == 2
\* largest num_simulations and num_days handed to the constructor
MaxSims == 2
MaxDays == 2
\* largest number of cells (num_days x num_simulations) of a simulation
MaxCells == 4

\* the outcomes of a draw from a normal distribution of positive std
Draws == {-1, 1}

None == <<>>

ReturnInputs == UNION {[1..n -> {NaN, 0, 1}] : n \in 0..MaxReturns}
VolatilityInputs == {None, <<1>>, <<1, 1>>, <<1, 2>>}
InitialValues == {-8, 0, 8}

\* percentile lists handed to get_percentiles, confidences (in percent)
\* handed to the other queries
PercentileLists ==
    {<<5, 25, 50, 75, 95>>, <<-5>>, <<0>>, <<100>>, <<105>>, <<50, 105>>}
ConfidenceArgs == {-10, 0, 50, 90, 100, 110}

\* pd.Series.dropna()
DropNa(q) == SelectSeq(q, LAMBDA x : x # NaN)

HasNaN(q) == \E i \in 1..Len(q) : q[i] = NaN

\* the outcomes of np.random.normal(sample.mean(), sample.std()), the std of
\* a pandas Series being the one with ddof = 1
NormalDraws(sample) ==
    IF Len(sample) = 1 THEN {NaN}
    ELSE IF \A i \in 1..Len(sample) : sample[i] = sample[1] THEN {sample[1]}
    ELSE Draws

\* value * (1 + r)
Grow(value, r) ==
    IF value = NaN \/ r = NaN THEN NaN ELSE (value * (RetUnit + r)) \div RetUnit

NoSimulator ==
    [constructed |-> FALSE, returns |-> None, num_simulations |-> 0,
     num_days |-> 0, initial_value |-> 0, regime_aware |-> FALSE,
     volatility_data |-> None, simulations |-> None, final_values |-> None,
     regime_stats |-> None]

NoQuery == [op |-> "none", arg |-> <<>>, raised |-> "none", check |-> "none",
            values |-> <<>>]

\* the sub-sequence of q at the positions where mask holds
Masked(q, mask) ==
    LET F[i \in 0..Len(q)] ==
            IF i = 0 THEN <<>>
            ELSE IF mask[i] THEN Append(F[i - 1], q[i]) ELSE F[i - 1]
    IN  F[Len(q)]

\* one entry of regime_stats: the returns its mean and std are taken of (those
\* of the regime, or all when the regime has none), and its probability times
\* len(returns)
RegimeEntry(returns, mask) ==
    LET own == Masked(returns, mask)
    IN  [sample |-> IF Len(own) > 0 THEN own ELSE returns,
         probability |-> Len(own)]

\* _calculate_regime_stats, lines 64-94: LOW_VOL, NORMAL, HIGH_VOL in this order
CalculateRegimeStats(returns, volatility_data) ==
    IF volatility_data = None \/ Len(volatility_data) # Len(returns) THEN None
    ELSE
    LET vol_25 == Percentile100(volatility_data, 25)
        vol_75 == Percentile100(volatility_data, 75)
        low == [i \in 1..Len(returns) |-> 100 * volatility_data[i] < vol_25]
        normal == [i \in 1..Len(returns) |->
                      /\ 100 * volatility_data[i] >= vol_25
                      /\ 100 * volatility_data[i] < vol_75]
        high == [i \in 1..Len(returns) |-> 100 * volatility_data[i] >= vol_75]
    IN  <<RegimeEntry(returns, low), RegimeEntry(returns, normal),
          RegimeEntry(returns, high)>>

\* a constructor that validates initial_value before the two counts
FailedCheckValueFirst(kept, num_simulations, num_days, initial_value) ==
    IF Len(kept) = 0 THEN "returns"
    ELSE IF initial_value <= 0 THEN "initial_value"
    ELSE IF num_simulations <= 0 \/ num_days <= 0 THEN "positive"
    ELSE "none"

\* lines 39-46: the check that raises ValueError, "none" when all pass
FailedCheck(kept, num_simulations, num_days, initial_value) ==
    IF Len(kept) = 0 THEN "returns"
    ELSE IF num_simulations <= 0 \/ num_days <= 0 THEN "positive"
    ELSE IF initial_value <= 0 THEN "initial_value"
    ELSE "none"

\* The outcome of MonteCarloSimulator(returns, num_simulations, num_days,
\* initial_value, regime_aware, volatility_data), returns a pandas Series:
\* the check that raised, or the object.
MonteCarloNew(returns, num_simulations, num_days, initial_value, regime_aware, volatility_data) ==
    LET kept == DropNa(returns)
        check == FailedCheck(kept, num_simulations, num_days, initial_value)
    IN  IF check # "none"
        THEN [sim |-> NoSimulator,
              call |-> [NoQuery EXCEPT !.op = "__init__", !.raised = "ValueError",
                                       !.check = check]]
        ELSE [sim |-> [constructed |-> TRUE, returns |-> kept,
                       num_simulations |-> num_simulations,
                       num_days |-> num_days,
                       initial_value |-> initial_value,
                       regime_aware |-> regime_aware,
                       volatility_data |-> volatility_data,
                       simulations |-> None, final_values |-> None,
                       regime_stats |->
                           IF regime_aware /\ volatility_data # None
                           THEN CalculateRegimeStats(kept, volatility_data)
                           ELSE None],
              call |-> [NoQuery EXCEPT !.op = "__init__"]]

\* __init__
MCInit(returns, num_simulations, num_days, initial_value, regime_aware, volatility_data) ==
    /\ mc_call.op = "none"
    /\ \E r \in {MonteCarloNew(returns, num_simulations, num_days, initial_value,
                               regime_aware, volatility_data)} :
           /\ mc' = r.sim
           /\ mc_call' = [r.call EXCEPT !.arg = <<returns, num_simulations,
                                                 num_days, initial_value>>]
    /\ UNCHANGED <<stratVars, engineVars, state, detVars, mc_ran>>

\* the draws of one cell of the simulation (lines 121-126, lines 153-162)
CellDraws(m) ==
    IF m.regime_aware /\ m.regime_stats # None
    THEN UNION {NormalDraws(m.regime_stats[i].sample) :
                    i \in {j \in 1..3 : m.regime_stats[j].probability > 0}}
    ELSE NormalDraws(m.returns)

\* lines 129-132 and 149-166: the paths compound the drawn returns day by day
Paths(m, random_returns) ==
    LET V[day \in 0..m.num_days] ==
            IF day = 0 THEN [sim \in 1..m.num_simulations |-> m.initial_value]
            ELSE [sim \in 1..m.num_simulations |->
                    Grow(V[day - 1][sim], random_returns[day][sim])]
    IN  [day \in 1..m.num_days |-> V[day]]

\* a simulator that keeps the first day's row for the risk analysis
FirstRow(simulations) == simulations[1]

\* line 114: simulations[-1, :]
LastRow(simulations) == simulations[Len(simulations)]

\* run()
MCRun(random_returns) ==
    /\ mc.constructed
    /\ \E simulations \in {Paths(mc, random_returns)} :
           mc' = [mc EXCEPT !.simulations = simulations,
                            !.final_values = LastRow(simulations)]
    /\ mc_call' = [NoQuery EXCEPT !.op = "run"]
    /\ mc_ran' = TRUE
    /\ UNCHANGED <<stratVars, engineVars, state, detVars>>

\* the guard every query starts with
NotRun(m) == m.simulations = None \/ m.final_values = None

RuntimeError(op) == [NoQuery EXCEPT !.op = op, !.raised = "RuntimeError"]
ValueError(op, check) ==
    [NoQuery EXCEPT !.op = op, !.raised = "ValueError", !.check = check]

\* 100 * float(np.percentile(final_values, pct))
FinalPercentile(final_values, pct) ==
    IF HasNaN(final_values) THEN NaN ELSE Percentile100(final_values, pct)

\* a get_percentiles that accepts only percentiles strictly inside (0, 100)
PercentileOkOpen(pct) == 0 < pct /\ pct < 100

\* line 185
PercentileOk(pct) == 0 <= pct /\ pct <= 100

\* lines 204, 232, 261
ConfidenceOk(confidence) == 0 < confidence /\ confidence < 100

\* get_percentiles(percentiles), lines 170-189: the values in list order
GetPercentiles(m, percentiles) ==
    IF NotRun(m) THEN RuntimeError("get_percentiles")
    ELSE IF \E i \in 1..Len(percentiles) : ~PercentileOk(percentiles[i])
    THEN ValueError("get_percentiles", "percentile")
    ELSE [NoQuery EXCEPT
            !.op = "get_percentiles",
            !.values = [i \in 1..Len(percentiles) |->
                           FinalPercentile(m.final_values, percentiles[i])]]

\* get_confidence_interval(confidence), lines 191-214
GetConfidenceInterval(m, confidence) ==
    IF NotRun(m) THEN RuntimeError("get_confidence_interval")
    ELSE IF ~ConfidenceOk(confidence)
    THEN ValueError("get_confidence_interval", "confidence")
    ELSE [NoQuery EXCEPT
            !.op = "get_confidence_interval",
            !.values = <<FinalPercentile(m.final_values, (100 - confidence) \div 2),
                         FinalPercentile(m.final_values,
                                         100 - (100 - confidence) \div 2)>>]

\* max(0.0, initial_value - value), times scale; max(0.0, nan) is 0.0
Loss(initial_scaled, value_scaled) ==
    IF value_scaled = NaN THEN 0
    ELSE IF initial_scaled - value_scaled > 0 THEN initial_scaled - value_scaled
    ELSE 0

\* calculate_var(confidence), lines 216-243: the value at risk times 100
CalculateVar(m, confidence) ==
    IF NotRun(m) THEN RuntimeError("calculate_var")
    ELSE IF ~ConfidenceOk(confidence) THEN ValueError("calculate_var", "confidence")
    ELSE [NoQuery EXCEPT
            !.op = "calculate_var",
            !.values = <<Loss(100 * m.initial_value,
                              FinalPercentile(m.final_values, 100 - confidence))>>]

\* final_values[final_values <= var_threshold]; a comparison with nan is false
TailValues(final_values, threshold100) ==
    IF threshold100 = NaN THEN <<>>
    ELSE SelectSeq(final_values, LAMBDA x : x # NaN /\ 100 * x <= threshold100)

\* calculate_cvar(confidence), lines 245-279: <<num, den>>, the conditional
\* value at risk being num / den
CalculateCvar(m, confidence) ==
    IF NotRun(m) THEN RuntimeError("calculate_cvar")
    ELSE IF ~ConfidenceOk(confidence) THEN ValueError("calculate_cvar", "confidence")
    ELSE
    LET tail_values ==
            TailValues(m.final_values,
                       FinalPercentile(m.final_values, 100 - confidence))
    IN  [NoQuery EXCEPT
            !.op = "calculate_cvar",
            !.values = IF Len(tail_values) = 0 THEN <<0, 1>>
                       ELSE <<Loss(m.initial_value * Len(tail_values),
                                   SeqSum(tail_values)),
                              Len(tail_values)>>]

\* get_summary_stats(), lines 281-319: the sum, 100 * median, min and max of
\* the final values, the number of paths that end above initial_value,
\* num_simulations and num_days (the standard deviation is left out)
GetSummaryStats(m) ==
    IF NotRun(m) THEN RuntimeError("get_summary_stats")
    ELSE
    LET fv == m.final_values
        sorted == NpSort(fv)
        profit == Cardinality({i \in 1..Len(fv) :
                                  fv[i] # NaN /\ fv[i] > m.initial_value})
    IN  [NoQuery EXCEPT
            !.op = "get_summary_stats",
            !.values = IF HasNaN(fv)
                       THEN <<NaN, NaN, NaN, NaN, profit, m.num_simulations,
                              m.num_days>>
                       ELSE <<SeqSum(fv), Percentile100(fv, 50), sorted[1],
                              sorted[Len(fv)], profit, m.num_simulations,
                              m.num_days>>]

\* the five queries: none of them writes a field of the simulator
MCGetPercentiles(percentiles) ==
    /\ mc.constructed
    /\ mc_call' = [GetPercentiles(mc, percentiles) EXCEPT !.arg = percentiles]
    /\ UNCHANGED <<stratVars, engineVars, state, detVars, mc, mc_ran>>

MCGetConfidenceInterval(confidence) ==
    /\ mc.constructed
    /\ mc_call' = [GetConfidenceInterval(mc, confidence) EXCEPT !.arg = <<confidence>>]
    /\ UNCHANGED <<stratVars, engineVars, state, detVars, mc, mc_ran>>

MCCalculateVar(confidence) ==
    /\ mc.constructed
    /\ mc_call' = [CalculateVar(mc, confidence) EXCEPT !.arg = <<confidence>>]
    /\ UNCHANGED <<stratVars, engineVars, state, detVars, mc, mc_ran>>

MCCalculateCvar(confidence) ==
    /\ mc.constructed
    /\ mc_call' = [CalculateCvar(mc, confidence) EXCEPT !.arg = <<confidence>>]
    /\ UNCHANGED <<stratVars, engineVars, state, detVars, mc, mc_ran>>

MCGetSummaryStats ==
    /\ mc.constructed
    /\ mc_call' = GetSummaryStats(mc)
    /\ UNCHANGED <<stratVars, engineVars, state, detVars, mc, mc_ran>>

(***************************************************************************)
(* Specifications                                                          *)
(***************************************************************************)
InitStrategy ==
    /\ StrategyNew
    /\ variant \in {"src", "legacy", "regime", "trend"}
    /\ cfg \in [use_regime : BOOLEAN, regime_adjust : BOOLEAN, use_trend : BOOLEAN]
    /\ variant = "legacy" => cfg.regime_adjust = cfg.use_regime
    /\ variant \in {"regime", "trend"} =>
            cfg = [use_regime |-> FALSE, regime_adjust |-> FALSE, use_trend |-> FALSE]
    /\ state = [s \in Symbols |-> LiveState]
    /\ data = [s \in Symbols |-> <<>>]
    /\ EngineNew
    /\ DetectorsNew
    /\ mc = NoSimulator
    /\ mc_call = NoQuery
    /\ mc_ran = FALSE

\* the classifications a detector can return for a history of n prices: every
\* one when it is enabled and the history is long enough, else its default
RegimeInputs(n) ==
    IF cfg.use_regime /\ n >= RegimeWindow + 1 /\ n >= TimeframeMinutes
    THEN Regimes ELSE {"NORMAL"}

TrendInputs(n) ==
    IF cfg.use_trend /\ n >= TrendLookback THEN Trends ELSE {"FLAT"}

\* the volatilities a RegimeDetector can compute from a history of n prices:
\* none before the window is full, the rolling ones (in increasing order, the
\* order being of no consequence for percentiles) once the look-back is full
VolInputs(n) == IF n >= RegimeWindow + 1 THEN Vols ELSE {0}

HistVolInputs(n) ==
    IF n >= RegimeWindow + 1 /\ n >= LookbackWindow
    THEN SortedSeqs(HistVols, Vols) ELSE {<<>>}

\* the signal directions and strengths a TrendDetector can compute from a
\* history of n prices
DirInputs(n) == IF n >= TrendLookback THEN Trends ELSE {"FLAT"}

StrengthInputs(n) == IF n >= TrendLookback THEN {0, 100} ELSE {0}

NextStrategy ==
    \/ \E s \in StratSymbols, close \in Prices :
         \E rin \in RegimeInputs(Len(history[s]) + 1),
            tin \in TrendInputs(Len(history[s]) + 1) :
                OnBar(s, close, rin, tin)
    \/ \E s \in StratSymbols, close \in Prices :
         \E rin \in RegimeInputs(Len(state[s].history) + 1),
            tin \in TrendInputs(Len(state[s].history) + 1) :
                OnBarLegacy(s, close, rin, tin)
    \/ \E s \in Symbols, close \in DetPrices :
         \E v \in VolInputs(Len(regime_detector.history[s]) + 1),
            hv \in HistVolInputs(Len(regime_detector.history[s]) + 1) :
                RegimeOnBar(s, close, v, hv)
    \/ \E s \in StratSymbols, n \in 0..(TrendLookback + 1) :
         \E lr \in DirInputs(n), mom \in DirInputs(n), ac \in DirInputs(n),
            strength \in StrengthInputs(n) :
                TrendCalc(s, n, lr, mom, ac, strength)

SpecStrategy == InitStrategy /\ [][NextStrategy]_vars

Init ==
    /\ StrategyNew
    /\ variant = "legacy"
    /\ cfg = [use_regime |-> FALSE, regime_adjust |-> FALSE, use_trend |-> FALSE]
    /\ state = [s \in Symbols |-> LiveState]
    /\ \E pa \in EnginePaths, pb \in EnginePaths :
            data = [s \in Symbols |-> Rows(s, IF s = "A" THEN pa ELSE pb)]
    /\ EngineNew
    /\ DetectorsNew
    /\ mc = NoSimulator
    /\ mc_call = NoQuery
    /\ mc_ran = FALSE

Next ==
    \/ RunStart
    \/ \E s \in Symbols : WorkerBar(s)
    \/ \E s \in Symbols : WorkerBuy(s)
    \/ \E s \in Symbols : WorkerSell(s)
    \/ \E s \in Symbols : WorkerTradesLock(s)
    \/ \E s \in Symbols : WorkerBuyRecord(s)
    \/ \E s \in Symbols : WorkerSellRecord(s)
    \/ \E s \in Symbols : WorkerEquityLock(s)
    \/ \E s \in Symbols : WorkerEquityRecord(s)
    \/ \E s \in Symbols : WorkerFinish(s)
    \/ RunReturn
    \/ GetStats

Spec == Init /\ [][Next]_vars

\* the steps of the thread of symbol s
Worker(s) ==
    \/ WorkerBar(s) \/ WorkerBuy(s) \/ WorkerSell(s) \/ WorkerTradesLock(s)
    \/ WorkerBuyRecord(s) \/ WorkerSellRecord(s) \/ WorkerEquityLock(s)
    \/ WorkerEquityRecord(s) \/ WorkerFinish(s)

\* the engine under a scheduler that lets every thread that can take a step
\* take one: each started worker, and the main thread joining the workers
SpecFair ==
    /\ Spec
    /\ \A s \in Symbols : WF_vars(Worker(s))
    /\ WF_vars(RunReturn)

\* one MonteCarloSimulator is constructed, then run and queried
InitMonteCarlo ==
    /\ StrategyNew
    /\ variant = "none"
    /\ cfg = [use_regime |-> FALSE, regime_adjust |-> FALSE, use_trend |-> FALSE]
    /\ state = [s \in Symbols |-> LiveState]
    /\ data = [s \in Symbols |-> <<>>]
    /\ EngineNew
    /\ DetectorsNew
    /\ mc = NoSimulator
    /\ mc_call = NoQuery
    /\ mc_ran = FALSE

NextMonteCarlo ==
    \/ /\ mc_call.op = "none"
       /\ \E returns \in ReturnInputs, num_simulations \in -1..MaxSims,
             num_days \in -1..MaxDays, initial_value \in InitialValues,
             regime_aware \in BOOLEAN, volatility_data \in VolatilityInputs :
               /\ num_simulations * num_days <= MaxCells
               /\ MCInit(returns, num_simulations, num_days, initial_value,
                         regime_aware, volatility_data)
    \/ /\ mc.constructed
       /\ \E random_returns \in
              [1..mc.num_days -> [1..mc.num_simulations -> CellDraws(mc)]] :
                  MCRun(random_returns)
    \/ \E percentiles \in PercentileLists : MCGetPercentiles(percentiles)
    \/ \E confidence \in ConfidenceArgs : MCGetConfidenceInterval(confidence)
    \/ \E confidence \in ConfidenceArgs : MCCalculateVar(confidence)
    \/ \E confidence \in ConfidenceArgs : MCCalculateCvar(confidence)
    \/ MCGetSummaryStats

SpecMonteCarlo == InitMonteCarlo /\ [][NextMonteCarlo]_vars

(***************************************************************************)
(* Strategy claims (SpecStrategy)                                          *)
(***************************************************************************)
\* the position flag of a symbol in the BuyLow under test
CurPos(s) == IF variant = "src" THEN pos[s] ELSE state[s].pos

\* C1: on_bar returns BUY only in a call that started with the symbol's position
\* flag 0 and SELL only in a call that started with flag 1, and per symbol the
\* non-HOLD signals alternate BUY, SELL, BUY, ... starting with BUY.
C1_SignalsAlternate ==
    /\ last.signal = 1 => last.pos0 = 0
    /\ last.signal = -1 => last.pos0 = 1
    /\ \A s \in Symbols : \A i \in 1..Len(sigs[s]) :
            sigs[s][i] = (IF i % 2 = 1 THEN 1 ELSE -1)

\* a third signal is returned: BUY, SELL, then BUY again from a flat position
C1_Witness ==
    /\ sigs["A"] = <<1, -1, 1>>
    /\ last.signal = 1 /\ last.pos0 = 0 /\ CurPos("A") = 1

\* C10: with regime adjustment enabled, a call whose regime is EXTREME and that
\* starts with position flag 0 returns HOLD and leaves the flag at 0.
C10_ExtremeFlatHolds ==
    (/\ last.sym \in Symbols
     /\ cfg.use_regime /\ cfg.regime_adjust
     /\ last.regime = "EXTREME" /\ last.pos0 = 0)
        => (last.signal = 0 /\ CurPos(last.sym) = 0)

\* an EXTREME bar of a flat symbol, past warm-up, with a price drop of three
\* standard deviations and no trend filter in the way: the call holds
C10_Witness ==
    /\ last.sym = "A" /\ cfg.use_regime /\ cfg.regime_adjust
    /\ last.regime = "EXTREME" /\ last.pos0 = 0
    /\ last.warm /\ ~last.flat_std /\ last.trend # "DOWN" /\ last.cd0 <= 0
    /\ last.close = 1
    /\ LET h == IF variant = "src" THEN history["A"] ELSE state["A"].history
       IN  Len(h) = 4 /\ h[2] = 3 /\ h[3] = 2
    /\ last.signal = 0 /\ CurPos("A") = 0

\* C20: in a call of BuyLow.on_bar (src/src/strategy.py) past warm-up, with
\* the window std above the floor, a trend that is not DOWN and a regime that
\* is not EXTREME, BUY is returned iff the position flag is 0, the z-score is
\* below minus the regime-scaled entry threshold and the cooldown, after the
\* decrement of this bar, is <= 0; a BUY sets the flag to 1, the entry price
\* to the close, the entry std to the window std of this bar and the cooldown
\* to cooldown_period.
C20_EntryRule ==
    [][\A s \in Symbols :
          (/\ variant = "src" /\ history'[s] # history[s]
           /\ last'.warm /\ ~last'.flat_std
           /\ last'.trend # "DOWN" /\ last'.regime # "EXTREME") =>
              LET h == history'[s]
                  adj == IF cfg.regime_adjust /\ cfg.use_regime
                         THEN last'.regime ELSE "NORMAL"
                  thr == IF adj = "LOW" THEN 700
                         ELSE IF adj = "HIGH" THEN 1300 ELSE 1000
                  zn == TimeframeMinutes * last'.close - WinMean(h)
                  below == zn < 0 /\ zn * zn * 1000000 > thr * thr * WinStd(h)
              IN  /\ last'.signal = 1
                        <=> (pos[s] = 0 /\ below /\ cooldown[s] - 1 <= 0)
                  /\ last'.signal = 1 =>
                        /\ pos'[s] = 1
                        /\ entry_price'[s] = last'.close
                        /\ entry_std'[s] = WinStd(h)
                        /\ cooldown'[s] = CooldownPeriod
      ]_vars

\* a BUY in the LOW regime at one standard deviation below the mean (the
\* unscaled threshold would not be passed), entered with cooldown 1, which
\* this bar's decrement brings to 0
C20_Witness ==
    /\ variant = "src" /\ last.sym = "A" /\ last.signal = 1
    /\ last.warm /\ ~last.flat_std /\ last.regime = "LOW" /\ last.trend = "FLAT"
    /\ last.pos0 = 0 /\ last.cd0 = 1
    /\ pos["A"] = 1 /\ entry_price["A"] = last.close
    /\ entry_std["A"] = WinStd(history["A"]) /\ cooldown["A"] = CooldownPeriod

\* the regime that scales the thresholds of the last call of BuyLow.on_bar of
\* src/src/strategy.py: the bar's regime when regime adjustment is on
AdjRegime(call) ==
    IF cfg.regime_adjust /\ cfg.use_regime THEN call.regime ELSE "NORMAL"

\* the factor, in tenths, the stop-loss and exit thresholds are scaled by
ExitScale(adj) ==
    IF adj = "LOW" THEN 8 ELSE IF adj = "HIGH" THEN 12
    ELSE IF adj = "EXTREME" THEN 15 ELSE 10

\* C21: in a call of BuyLow.on_bar (src/src/strategy.py) past warm-up, with
\* the window std above the floor and position flag 1, SELL is returned and
\* the flag set to 0 iff (close - entry_price) / entry_std is below minus the
\* stop-loss threshold or above the exit threshold, both scaled by the bar's
\* regime; otherwise the flag stays 1 and HOLD is returned.
C21_ExitRule ==
    [][\A s \in Symbols :
          (/\ variant = "src" /\ history'[s] # history[s]
           /\ last'.warm /\ ~last'.flat_std /\ pos[s] = 1) =>
              LET adj == AdjRegime(last')
                  stop == (StopLoss * ExitScale(adj)) \div 10
                  exit == (Factor[2] * ExitScale(adj)) \div 10
                  num == (last'.close - entry_price[s]) * TimeframeMinutes
                  out == \/ num < 0 /\ num * num * 1000000 > stop * stop * entry_std[s]
                         \/ num > 0 /\ num * num * 1000000 > exit * exit * entry_std[s]
              IN  /\ out => last'.signal = -1 /\ pos'[s] = 0
                  /\ ~out => last'.signal = 0 /\ pos'[s] = 1
      ]_vars

\* a stop-loss SELL: the close is below the entry price of the position closed
C21_Witness ==
    /\ variant = "src" /\ last.sym = "A" /\ last.signal = -1
    /\ last.warm /\ ~last.flat_std /\ last.pos0 = 1
    /\ last.close < entry_price["A"] /\ pos["A"] = 0

\* C22: in BuyLow.on_bar of src/src/strategy.py, after a call returns SELL for a
\* symbol no call for that symbol returns BUY until cooldown_period bars have
\* passed since the SELL: a BUY that follows a SELL is at least cooldown_period
\* bars after it.
C22_NoReentryDuringCooldown ==
    variant = "src" =>
        \A s \in Symbols : \A i \in 1..(Len(sigs[s]) - 1) :
            (sigs[s][i] = -1 /\ sigs[s][i + 1] = 1) =>
                sig_bars[s][i + 1] - sig_bars[s][i] >= CooldownPeriod

\* C23 as stated: every call of BuyLow.on_bar (src/src/strategy.py) past
\* warm-up that does not return BUY leaves the cooldown one below its value
\* before the call, whatever the regime, std or trend of the bar.
C23_EveryBarTicks ==
    [][\A s \in Symbols :
          (/\ variant = "src" /\ history'[s] # history[s]
           /\ last'.warm /\ last'.signal # 1) =>
              cooldown'[s] = cooldown[s] - 1
      ]_vars

\* C23, amended: a call past warm-up that returns at the std floor, or at the
\* refusal of an entry in the EXTREME regime, leaves the cooldown unchanged;
\* every other call past warm-up decrements it by exactly one, below 0 too,
\* before the entry test: it is one below its old value after a HOLD or a
\* SELL, and a BUY needs the decremented value <= 0 and resets it.
C23_TickAfterEarlyReturns ==
    [][\A s \in Symbols :
          (variant = "src" /\ history'[s] # history[s] /\ last'.warm) =>
              IF last'.flat_std \/ (AdjRegime(last') = "EXTREME" /\ pos[s] = 0)
              THEN cooldown'[s] = cooldown[s] /\ last'.signal = 0
              ELSE IF last'.signal = 1
              THEN cooldown[s] - 1 <= 0 /\ cooldown'[s] = CooldownPeriod
              ELSE cooldown'[s] = cooldown[s] - 1
      ]_vars

\* a call past warm-up that holds and takes the cooldown from 0 to -1
C23_Witness ==
    /\ variant = "src" /\ last.sym = "A" /\ last.warm /\ ~last.flat_std
    /\ last.signal = 0 /\ last.cd0 = 0 /\ cooldown["A"] = -1

\* the symbol's history in the BuyLow under test
CurHistory(s) == IF variant = "src" THEN history[s] ELSE state[s].history

\* the signal the call of on_bar recorded in call, made in the current state
\* for symbol s, returns when the trend detector answers tin
SignalIfTrend(s, call, tin) ==
    LET rin == IF call.regime = "none" THEN "NORMAL" ELSE call.regime
    IN  IF variant = "src" THEN BuyLowOnBar(s, call.close, rin, tin).signal
        ELSE LegacyOnBar(state[s], call.close, rin, tin,
                         [use_regime |-> cfg.use_regime,
                          use_trend |-> cfg.use_trend]).signal

\* C24: a call of BuyLow.on_bar (either version) whose trend is DOWN never
\* returns BUY; the filter applies to entries only: with position flag 1 the
\* call returns what it returns on a FLAT trend, a stop-loss or take-profit
\* SELL included.
C24_DownTrendFilter ==
    [][\A s \in StratSymbols :
          (/\ variant \in {"src", "legacy"} /\ CurHistory(s)' # CurHistory(s)
           /\ last'.trend = "DOWN") =>
              /\ last'.signal # 1
              /\ CurPos(s) = 1 => last'.signal = SignalIfTrend(s, last', "FLAT")
      ]_vars

\* a SELL returned on a DOWN-trend bar
C24_Witness ==
    /\ variant = "src" /\ last.sym = "A" /\ last.trend = "DOWN"
    /\ last.pos0 = 1 /\ last.signal = -1 /\ pos["A"] = 0

\* the entry price and entry std of a symbol in the BuyLow under test
CurEntryPrice(s) == IF variant = "src" THEN entry_price[s] ELSE state[s].entry_price

CurEntryStd(s) == IF variant = "src" THEN entry_std[s] ELSE state[s].entry_std

\* the number of the bar of the symbol's last non-HOLD signal
LastSignalBar(s) == sig_bars[s][Len(sig_bars[s])]

ClearedEntry(st) == [st EXCEPT !.entry_price = 0, !.entry_std = 0, !.entry_mean = 0]

\* C26: in a call of the state-passing BuyLow.on_bar(bar, st) past warm-up
\* with st.pos = 0, the signal returned is the one returned for the same
\* state without the entry fields of an earlier trade, and the z-score is
\* taken from the mean and std of the trailing timeframe window that excludes
\* the current bar.
C26_FlatIgnoresEntryFields ==
    [][\A s \in StratSymbols :
          (/\ variant = "legacy" /\ state'[s].history # state[s].history
           /\ last'.warm /\ state[s].pos = 0) =>
              LET h == state'[s].history
                  rin == IF last'.regime = "none" THEN "NORMAL" ELSE last'.regime
                  tin == IF last'.trend = "none" THEN "FLAT" ELSE last'.trend
              IN  /\ last'.signal =
                        LegacyOnBar(ClearedEntry(state[s]), last'.close, rin, tin,
                                    [use_regime |-> cfg.use_regime,
                                     use_trend |-> cfg.use_trend]).signal
                  /\ LegacyMeanPrice(state[s], h) = WinMean(h)
                  /\ LegacyStdDev(state[s], h) = WinStd(h)
      ]_vars

\* C30: in BuyLow.on_bar of src/src/strategy.py two BUY signals of a symbol
\* are at least cooldown_period bars apart, whatever exits happen in between.
C30_BuysCooldownApart ==
    variant = "src" =>
        \A s \in Symbols : \A i \in 1..Len(sigs[s]) : \A j \in (i + 1)..Len(sigs[s]) :
            (sigs[s][i] = 1 /\ sigs[s][j] = 1) =>
                sig_bars[s][j] - sig_bars[s][i] >= CooldownPeriod

\* a BUY, a SELL on the next bar, and the second BUY exactly cooldown_period
\* bars after the first
C30_Witness ==
    /\ variant = "src" /\ sigs["A"] = <<1, -1, 1>>
    /\ sig_bars["A"][2] = sig_bars["A"][1] + 1
    /\ sig_bars["A"][3] = sig_bars["A"][1] + CooldownPeriod
    /\ last.signal = 1 /\ last.cd0 = 1

(***************************************************************************)
(* Engine claims (Spec)                                                    *)
(***************************************************************************)
\* the indices of the trades of symbol s
TradesOf(s) == {i \in 1..Len(trades) : trades[i].symbol = s}

\* the shares symbol s holds according to the trade list: those of its last
\* trade when that is a buy
HeldShares(s) ==
    IF TradesOf(s) = {} THEN 0
    ELSE IF trades[Max(TradesOf(s))].type = "buy"
         THEN trades[Max(TradesOf(s))].shares
         ELSE 0

\* the buy trades of the symbol of trade j that precede it
BuysBefore(j) ==
    {i \in 1..(j - 1) : trades[i].symbol = trades[j].symbol /\ trades[i].type = "buy"}

\* C2: a SELL credits the shares the preceding BUY of the symbol opened, times
\* the sell price, and records that share count; after a BUY and a SELL at the
\* same price the cash is what it was before the BUY.
C2_SellLiquidatesBoughtShares ==
    \A j \in 1..Len(trades) :
        (trades[j].type = "sell" /\ BuysBefore(j) # {}) =>
            LET b == trades[Max(BuysBefore(j))]
            IN  /\ trades[j].shares = b.shares
                /\ trades[j].amount = b.shares * trades[j].price
                /\ trades[j].price = b.price => trades[j].amount = b.amount

\* C3: the equity point a worker records for a bar is the cash plus the shares
\* the symbol holds times the close of the bar.
C3_EquityIsMarkedToMarket ==
    [][\A s \in Symbols :
          (pc[s] = "eq_lock" /\ pc'[s] = "loop") =>
              equity_curve'[Len(equity_curve')].equity
                  = capital + HeldShares(s) * Row(s).close]_vars

\* C4: the first BUY of every symbol spends exactly C/N.
C4_FirstBuySpendsEvenShare ==
    \A j \in 1..Len(trades) :
        (trades[j].type = "buy" /\ BuysBefore(j) = {}) =>
            trades[j].amount = InitialCapital \div Cardinality(Symbols)

\* The run in which the worker of A processes all its rows before the worker
\* of B starts: worker s from row i on, with LiveState st.
RECURSIVE SeqWorker(_, _, _, _)
SeqWorker(s, i, st, acc) ==
    IF i > Len(data[s]) THEN acc
    ELSE
    LET row == data[s][i]
        r == LegacyOnBar(st, row.close, "NORMAL", "FLAT", EngineFlags)
        amt == Min(acc.capital, Allocation)
        proceeds == r.st.shares * row.close
        cap == IF r.signal = 1 THEN acc.capital - amt
               ELSE IF r.signal = -1 THEN acc.capital + proceeds
               ELSE acc.capital
        trs == IF r.signal = 1
               THEN Append(acc.trades,
                      [type |-> "buy", price |-> row.close, date |-> row.timestamp,
                       symbol |-> s, shares |-> amt \div row.close, amount |-> amt])
               ELSE IF r.signal = -1
               THEN Append(acc.trades,
                      [type |-> "sell", price |-> row.close, date |-> row.timestamp,
                       symbol |-> s, shares |-> r.st.shares, amount |-> proceeds])
               ELSE acc.trades
    IN  SeqWorker(s, i + 1, r.st,
                  [capital |-> cap, trades |-> trs,
                   curve |-> Append(acc.curve,
                               [timestamp |-> row.timestamp, equity |-> cap,
                                symbol |-> s])])

SeqRun ==
    SeqWorker("B", 1, LiveState,
        SeqWorker("A", 1, LiveState,
            [capital |-> InitialCapital, trades |-> <<>>, curve |-> <<>>]))

\* the trades of symbol s in a trade list, in list order
RECURSIVE SymbolTrades(_, _)
SymbolTrades(trs, s) ==
    IF trs = <<>> THEN <<>>
    ELSE IF Head(trs).symbol = s
         THEN <<Head(trs)>> \o SymbolTrades(Tail(trs), s)
         ELSE SymbolTrades(Tail(trs), s)

\* C5: the trades recorded for a symbol and the consolidated equity of each
\* timestamp are the same under every interleaving of the workers, so they are
\* those of the run in which the workers execute one after the other.
C5_ResultIndependentOfInterleaving ==
    runpc = "returned" =>
        /\ \A s \in Symbols : SymbolTrades(trades, s) = SymbolTrades(SeqRun.trades, s)
        /\ equity_df = GroupByLast(SeqRun.curve)

\* the timestamps both symbols report
SharedTimestamps ==
    {t \in Timestamps(equity_curve) :
        \A s \in Symbols : \E i \in 1..Len(data[s]) : data[s][i].timestamp = t}

\* C6: when the strategy returned HOLD on every bar, the consolidated equity
\* curve is the initial capital at every timestamp both symbols report.
C6_FlatRunConsolidatesToCapital ==
    (runpc = "returned" /\ trades = <<>>) =>
        \A t \in SharedTimestamps : equity_df[t] = InitialCapital

\* a returned run without a trade over rows whose prices move, with timestamps
\* that both symbols report and timestamps that only one reports
C6_Witness ==
    /\ runpc = "returned" /\ trades = <<>>
    /\ \A s \in Symbols : Len(data[s]) = 4 /\ data[s][2].close # data[s][3].close
    /\ Cardinality(SharedTimestamps) = 3
    /\ Cardinality(DOMAIN equity_df) = 5
    /\ \A t \in SharedTimestamps : equity_df[t] = InitialCapital

\* C7: when the strategy returned HOLD on every bar, every equity point of a
\* worker is half the initial capital.
C7_FlatPointsAreHalfCapital ==
    (runpc = "returned" /\ trades = <<>>) =>
        \A i \in 1..Len(equity_curve) :
            equity_curve[i].equity = InitialCapital \div Cardinality(Symbols)

\* C8: the consolidated equity curve holds, for every timestamp, the sum of the
\* equity points the workers recorded at that timestamp.
C8_ConsolidatedIsSum ==
    runpc = "returned" =>
        \A t \in DOMAIN equity_df : equity_df[t] = SumAt(equity_curve, t)

\* C9: after run() the trade log of get_trades is in non-decreasing timestamp
\* order, and the trades of one symbol are in the order of the symbol's bars.
C9_TradeLogSortedByTime ==
    runpc = "returned" =>
        \A i \in 1..Len(GetTrades) : \A j \in (i + 1)..Len(GetTrades) :
            GetTrades[i].date <= GetTrades[j].date

RECURSIVE TradeSum(_, _)
\* the sum of 'cost' ("buy") or 'proceeds' ("sell") over the trades of a type
TradeSum(log, type) ==
    IF log = <<>> THEN 0
    ELSE (IF Head(log).type = type THEN Head(log).amount ELSE 0)
            + TradeSum(Tail(log), type)

\* C28: in every state in which no worker holds capital_lock, the capital is
\* the initial capital minus the cost of the recorded buy trades plus the
\* proceeds of the recorded sell trades, under every interleaving of the
\* workers; and the capital is never negative.
C28_CapitalAccounted ==
    /\ capital >= 0
    /\ capital_lock = "free" =>
            capital = InitialCapital - TradeSum(trades, "buy")
                                     + TradeSum(trades, "sell")

\* both workers have bought, the second after the first had taken the whole
\* capital, and no worker holds capital_lock
C28_Witness ==
    /\ capital_lock = "free" /\ capital = 0
    /\ \E i, j \in 1..Len(trades) :
            /\ trades[i].type = "buy" /\ trades[i].symbol = "A"
            /\ trades[j].type = "buy" /\ trades[j].symbol = "B"
            /\ trades[i].amount + trades[j].amount = InitialCapital
    /\ \E s \in Symbols : pc[s] \in {"loop", "equity"}

\* the number of rows of the input
TotalBars == Len(data["A"]) + Len(data["B"])

\* C29: workers take capital_lock while holding neither trades_lock nor
\* equity_lock, and under every fair interleaving a started run() returns,
\* with all workers finished, active_threads back at 0 and one raw equity
\* point per bar of the input.
C29_RunTerminates ==
    /\ [][\A s \in Symbols :
             (capital_lock # s /\ capital_lock' = s) =>
                 (trades_lock # s /\ equity_lock # s)]_vars
    /\ [](runpc = "returned" =>
             /\ \A s \in Symbols : pc[s] \in {"done", "absent"}
             /\ active_threads = 0
             /\ Len(equity_curve) = TotalBars)
    /\ (runpc = "running") ~> (runpc = "returned")

\* a run in which both workers traded has returned
C29_Witness ==
    /\ runpc = "returned" /\ active_threads = 0
    /\ \A s \in Symbols : pc[s] = "done" /\ TradesOf(s) # {}
    /\ Len(equity_curve) = 8

(***************************************************************************)
(* Detector claims (SpecStrategy, variants "regime" and "trend")           *)
(***************************************************************************)
\* the last call was an on_bar of the RegimeDetector that reached the
\* classification of lines 82-102
Classified ==
    /\ det_call.op = "on_bar"
    /\ det_call.len >= RegimeWindow + 1 /\ det_call.len >= LookbackWindow

\* C15: with thresholds p25 <= p75 <= p90 and current volatility v the regime
\* returned is LOW iff v < p25, NORMAL iff p25 <= v < p75, HIGH iff
\* p75 <= v < p90 and EXTREME iff v >= p90, so a volatility equal to a
\* threshold is in the higher bucket.
C15_ClassificationBuckets ==
    (Classified /\ det_call.p25 <= det_call.p75 /\ det_call.p75 <= det_call.p90) =>
        LET v100 == 100 * det_call.v
        IN  /\ det_call.result = "LOW" <=> v100 < det_call.p25
            /\ det_call.result = "NORMAL"
                    <=> (det_call.p25 <= v100 /\ v100 < det_call.p75)
            /\ det_call.result = "HIGH"
                    <=> (det_call.p75 <= v100 /\ v100 < det_call.p90)
            /\ det_call.result = "EXTREME" <=> det_call.p90 <= v100

\* rolling volatilities 1 and 5 (p25 = 2, p75 = 4, p90 = 4.6) and a current
\* volatility of exactly p75: the regime is HIGH
C15_Witness ==
    /\ Classified
    /\ det_call.p25 = 200 /\ det_call.p75 = 400 /\ det_call.p90 = 460
    /\ det_call.v = 4 /\ det_call.result = "HIGH"
    /\ regime_detector.current_regime[det_call.sym] = "HIGH"

\* C16: TrendDetector.calculate returns UP iff slope and momentum are both UP,
\* or one is UP, the other FLAT and the autocorrelation direction is not DOWN;
\* DOWN under the mirrored condition; FLAT otherwise.
C16_TrendCombination ==
    (det_call.op = "calculate" /\ det_call.len >= TrendLookback) =>
        LET lr == det_call.lr
            mom == det_call.mom
            ac == det_call.ac
            agree(d) == lr = d /\ mom = d
            lone(d) == \/ lr = d /\ mom = "FLAT"
                       \/ lr = "FLAT" /\ mom = d
            up == agree("UP") \/ (lone("UP") /\ ac # "DOWN")
            down == agree("DOWN") \/ (lone("DOWN") /\ ac # "DOWN")
        IN  /\ det_call.result = "UP" <=> up
            /\ det_call.result = "DOWN" <=> down
            /\ det_call.result = "FLAT" <=> (~up /\ ~down)
            /\ trend_detector.current_trend[det_call.sym] = det_call.result

\* slope UP, momentum FLAT, autocorrelation DOWN: the score 0.6 gives FLAT
C16_Witness ==
    /\ det_call.op = "calculate" /\ det_call.len >= TrendLookback
    /\ det_call.lr = "UP" /\ det_call.mom = "FLAT" /\ det_call.ac = "DOWN"
    /\ det_call.result = "FLAT"

\* a RegimeDetector that no call preceded
FreshDetector ==
    [history |-> [s \in Symbols |-> <<>>],
     current_regime |-> [s \in Symbols |-> "NORMAL"],
     current_volatility |-> [s \in Symbols |-> 0],
     volatility_percentile |-> [s \in Symbols |-> 0]]

\* C17: the regime classification is a pure function of what the call is
\* given: a call leaves unchanged the state a later classification reads (the
\* stored history), and it returns what the same call returns on a detector
\* that no call preceded.
C17_ClassifierIsPure ==
    [][(det_call'.op = "on_bar" /\ regime_detector' # regime_detector) =>
          LET s == det_call'.sym
              close == regime_detector'.history[s][Len(regime_detector'.history[s])]
          IN  /\ regime_detector'.history = regime_detector.history
              /\ det_call'.result =
                    RegimeDetectorOnBar(FreshDetector, s, close, det_call'.v, <<>>).regime
      ]_vars

\* C18: with insufficient history each component returns its neutral default:
\* RegimeDetector.on_bar returns NORMAL while the stored history has fewer than
\* regime_window + 1 or fewer than lookback_window prices; TrendDetector
\* .calculate returns FLAT and stores strength 0 for a history shorter than
\* lookback; BuyLow.on_bar returns HOLD and leaves the position flag, the
\* entry price, the entry std and the cooldown as they were while the history
\* is no longer than the timeframe.
C18_NeutralDefaults ==
    [][/\ (det_call'.op = "on_bar" /\ det_call' # det_call
            /\ (det_call'.len < RegimeWindow + 1 \/ det_call'.len < LookbackWindow))
              => det_call'.result = "NORMAL"
       /\ (det_call'.op = "calculate" /\ det_call' # det_call
            /\ det_call'.len < TrendLookback)
              => /\ det_call'.result = "FLAT"
                 /\ trend_detector'.trend_strength[det_call'.sym] = 0
       /\ \A s \in Symbols :
            (history'[s] # history[s] /\ Len(history'[s]) <= TimeframeMinutes)
              => /\ last'.signal = 0 /\ last'.sym = s
                 /\ pos'[s] = pos[s]
                 /\ entry_price'[s] = entry_price[s]
                 /\ entry_std'[s] = entry_std[s]
                 /\ cooldown'[s] = cooldown[s]
      ]_vars

\* the RegimeDetector has the prices for a volatility (5, stored) but not yet
\* the look-back window: NORMAL
C18_Witness ==
    /\ det_call.op = "on_bar" /\ det_call.sym = "A"
    /\ det_call.len = RegimeWindow + 1 /\ det_call.len < LookbackWindow
    /\ regime_detector.current_volatility["A"] = 5
    /\ det_call.result = "NORMAL"

QueryOps == {"get_percentiles", "get_confidence_interval", "calculate_var",
             "calculate_cvar", "get_summary_stats"}

\* the result of query op with argument arg on simulator m
QueryOn(m, op, arg) ==
    CASE op = "get_percentiles" -> [GetPercentiles(m, arg) EXCEPT !.arg = arg]
      [] op = "get_confidence_interval" ->
            [GetConfidenceInterval(m, arg[1]) EXCEPT !.arg = arg]
      [] op = "calculate_var" -> [CalculateVar(m, arg[1]) EXCEPT !.arg = arg]
      [] op = "calculate_cvar" -> [CalculateCvar(m, arg[1]) EXCEPT !.arg = arg]
      [] op = "get_summary_stats" -> GetSummaryStats(m)

\* C11: a query raises RuntimeError exactly when no run() has completed on the
\* simulator; a query that raises leaves every field of the simulator as it
\* was; a query that returns has computed its result from the last day's row
\* of the simulations.
C11_QueriesNeedRun ==
    [][(mc_call'.op \in QueryOps /\ mc_call' # mc_call) =>
          /\ (mc_call'.raised = "RuntimeError") <=> ~mc_ran
          /\ mc_call'.raised # "none" => mc' = mc
          /\ mc_call'.raised = "none" =>
                mc_call' = QueryOn([mc EXCEPT !.final_values =
                                                  mc.simulations[mc.num_days]],
                                   mc_call'.op, mc_call'.arg)]_vars

\* after a run of two days whose rows differ, the value at risk at confidence
\* 50% is returned, and it is the loss of the last day's median
C11_Witness ==
    /\ mc_ran /\ mc.num_days = 2 /\ mc.num_simulations = 2
    /\ mc.simulations[1] = <<12, 12>> /\ mc.simulations[2] = <<6, 6>>
    /\ mc_call.op = "calculate_var" /\ mc_call.arg = <<50>>
    /\ mc_call.raised = "none" /\ mc_call.values = <<200>>

C13_EndPointsRejected ==
    (mc_ran /\ mc_call.op \in QueryOps /\ mc_call.op # "get_summary_stats") =>
        IF mc_call.op = "get_percentiles"
        THEN (mc_call.raised = "ValueError")
                <=> \E i \in 1..Len(mc_call.arg) :
                        ~(0 < mc_call.arg[i] /\ mc_call.arg[i] < 100)
        ELSE (mc_call.raised = "ValueError")
                <=> ~(0 < mc_call.arg[1] /\ mc_call.arg[1] < 100)

\* C13, amended: after run(), get_percentiles raises ValueError exactly when a
\* requested percentile is below 0 or above 100 (0 and 100 are accepted and
\* give the minimum and the maximum of the final values); the queries with a
\* confidence raise it exactly when the confidence is not strictly inside
\* (0, 1).
C13_ArgumentRanges ==
    (mc_ran /\ mc_call.op \in QueryOps /\ mc_call.op # "get_summary_stats") =>
        IF mc_call.op = "get_percentiles"
        THEN (mc_call.raised = "ValueError")
                <=> \E i \in 1..Len(mc_call.arg) :
                        mc_call.arg[i] < 0 \/ mc_call.arg[i] > 100
        ELSE (mc_call.raised = "ValueError")
                <=> (mc_call.arg[1] <= 0 \/ mc_call.arg[1] >= 100)

\* after a run with final values 4 and 12, percentile 100 is accepted and is
\* the maximum
C13_Witness ==
    /\ mc_ran /\ mc.final_values = <<4, 12>>
    /\ mc_call.op = "get_percentiles" /\ mc_call.arg = <<100>>
    /\ mc_call.raised = "none" /\ mc_call.values = <<1200>>

\* the simulator draws from the whole return series
StandardMode == ~(mc.regime_aware /\ mc.regime_stats # None)

\* C19: for a return series of zeros only, in standard mode, run() leaves
\* every path at initial_value on the last day, and calculate_var and
\* calculate_cvar return 0 for every confidence in (0, 1).
C19_ZeroReturnsNoRisk ==
    (/\ mc_ran /\ StandardMode
     /\ \A i \in 1..Len(mc.returns) : mc.returns[i] = 0) =>
        /\ \A j \in 1..mc.num_simulations : mc.final_values[j] = mc.initial_value
        /\ (mc_call.op \in {"calculate_var", "calculate_cvar"}
                /\ mc_call.raised = "none") => mc_call.values[1] = 0

\* the larger of two integers
Max2(a, b) == IF a >= b THEN a ELSE b

\* C27: after run(), for every confidence in (0, 1), with P the
\* (1 - confidence) x 100 percentile of the final values and the tail the
\* final values <= P: the tail is not empty, calculate_var returns
\* max(0, initial_value - P), calculate_cvar returns
\* max(0, initial_value - mean of the tail), and 0 <= VaR <= CVaR.
C27_VarWithinCvar ==
    mc_ran =>
        \A confidence \in {c \in ConfidenceArgs : 0 < c /\ c < 100} :
            LET P100 == FinalPercentile(mc.final_values, 100 - confidence)
                tail == TailValues(mc.final_values, P100)
                var100 == CalculateVar(mc, confidence).values[1]
                cvar == CalculateCvar(mc, confidence).values
            IN  /\ Len(tail) > 0
                /\ P100 # NaN
                /\ var100 = Max2(0, 100 * mc.initial_value - P100)
                /\ cvar = <<Max2(0, mc.initial_value * Len(tail) - SeqSum(tail)),
                            Len(tail)>>
                /\ 0 <= var100
                /\ var100 * cvar[2] <= 100 * cvar[1]

====
